---- MODULE Spec2Model ----
(***************************************************************************)
(* Model of normalization_script.py: run_migration() sends a fixed list of *)
(* SQL statements to a MySQL store, one cursor.execute() and one           *)
(* connection.commit() per statement, and stops at the first exception.    *)
(*                                                                         *)
(* The store is modelled by what each statement does to the tables:        *)
(*   - text is a sequence of one-character strings, so that TRIM is        *)
(*     computed and not assumed;                                           *)
(*   - a table is a sequence of rows in insertion order, a row is a        *)
(*     record, AUTO_INCREMENT keys are 1, 2, ... in insertion order;       *)
(*   - SELECT DISTINCT keeps the first occurrence of each value (MySQL     *)
(*     leaves the order open; no statement of the script reads it);        *)
(*   - a statement that raises leaves nothing behind (InnoDB rolls the     *)
(*     statement back, DDL is atomic); DDL commits implicitly.             *)
(***************************************************************************)
EXTENDS Integers, Sequences, FiniteSets, TLC

\* ------------------------------------------------------------------ bounds

\* rows of company_raw
MaxRows == 2
\* runs of run_migration in one behaviour
MaxRuns == 3
\* store errors (lost connection, lock timeout, ...) the store may raise
MaxStoreErrors == 2
\* rows a failing INSERT may have written before the store raised
MaxPartial == 1
\* statements applied in the statement-level specification
MaxExecs == 3

\* ------------------------------------------------------------------ values

\* SQL NULL of a text column or JSON string
NULL == <<"NULL">>
\* SQL NULL of an INT column of JSON_TABLE (the payload's numbers are >= 0)
NULLINT == -1

\* a JSON column: SQL NULL, or a JSON array of items
JNull == [isnull |-> TRUE, items |-> <<>>]
JList(s) == [isnull |-> FALSE, items |-> s]

\* company_size: SQL NULL, or a JSON array [low, high]
NoSize == [isnull |-> TRUE, low |-> NULLINT, high |-> NULLINT]
Size(l, h) == [isnull |-> FALSE, low |-> l, high |-> h]

Min(a, b) == IF a < b THEN a ELSE b

Range(s) == {s[i] : i \in DOMAIN s}

RECURSIVE LTrim(_)
LTrim(s) == IF s # <<>> /\ Head(s) = " " THEN LTrim(Tail(s)) ELSE s

RECURSIVE RTrim(_)
RTrim(s) ==
  IF s # <<>> /\ s[Len(s)] = " " THEN RTrim(SubSeq(s, 1, Len(s) - 1)) ELSE s

\* TRIM(x): leading and trailing spaces removed; TRIM(NULL) is NULL
TRIM(s) == IF s = NULL THEN NULL ELSE LTrim(RTrim(s))

\* the WHERE test  TRIM(x) <> ''  (NULL <> '' is not true)
NonEmpty(s) == s # NULL /\ TRIM(s) # <<>>

\* COALESCE(x, d)
COALESCE(x, d) == IF x = NULL THEN d ELSE x

RECURSIVE Flatten(_)
Flatten(ss) == IF ss = <<>> THEN <<>> ELSE Head(ss) \o Flatten(Tail(ss))

RECURSIVE DistinctFrom(_, _)
DistinctFrom(s, seen) ==
  IF s = <<>> THEN <<>>
  ELSE IF Head(s) \in seen THEN DistinctFrom(Tail(s), seen)
  ELSE <<Head(s)>> \o DistinctFrom(Tail(s), seen \cup {Head(s)})

\* a SELECT without DISTINCT: the rows as selected
SelectAll(s) == s

\* SELECT DISTINCT
Distinct(s) == DistinctFrom(s, {})

\* ------------------------------------------------------------------ payloads

sA == <<"a">>
sAsp == <<"a", " ">>
spA == <<" ", "a">>
spAsp == <<" ", "a", " ">>
sB == <<"b">>
sBlank == <<" ">>
sEmpty == <<>>
sTrue == <<"t", "r", "u", "e">>
sOne == <<"1">>
sFalse == <<"f", "a", "l", "s", "e">>

NoLinkProvided == <<"N", "o", " ", "L", "i", "n", "k", " ", "P", "r", "o", "v", "i", "d", "e", "d">>
NoNameProvided == <<"N", "o", " ", "N", "a", "m", "e", " ", "P", "r", "o", "v", "i", "d", "e", "d">>
NoIndustryProvided == <<"N", "o", " ", "I", "n", "d", "u", "s", "t", "r", "y", " ", "P", "r", "o", "v", "i", "d", "e", "d">>
NoLocationProvided == <<"N", "o", " ", "L", "o", "c", "a", "t", "i", "o", "n", " ", "P", "r", "o", "v", "i", "d", "e", "d">>

\* one entry of the locations payload
Loc(co, ci, pc, l1, hq, st) ==
  [country |-> co, city |-> ci, postal_code |-> pc, line_1 |-> l1,
   is_hq |-> hq, state |-> st]

\* one entry of the updates payload (posted_on.day/month/year are numbers)
Upd(al, im, d, m, y, tx, tl) ==
  [article_link |-> al, image |-> im, day |-> d, month |-> m, year |-> y,
   text |-> tx, total_likes |-> tl]

\* one entry of the affiliated_companies / similar_companies payloads
Co(n, l, i, lo) == [name |-> n, link |-> l, industry |-> i, location |-> lo]

\* a row of company_raw before the migration
RawRow(sp, ty, ind, sz, lo, up, af, si) ==
  [exit_data |-> NULL, acquisitions |-> NULL, extra |-> NULL,
   funding_data |-> NULL, categories |-> NULL, customer_list |-> NULL,
   hq |-> NULL, specialities |-> sp, company_type |-> ty, industry |-> ind,
   company_size |-> sz, locations |-> lo, updates |-> up,
   affiliated_companies |-> af, similar_companies |-> si]

\* The rows company_raw is filled from: values that differ only in their
\* surrounding spaces, repeated values, blank and NULL entries, NULL and
\* empty payloads (company_size [] gives low and high NULL), size pairs in
\* and out of the enumerated buckets, is_hq 'true', '1', 'false', '' and
\* absent, an update whose posted_on is no date.
RawRows ==
  { RawRow(JList(<<sA, spA, sB>>), sAsp, sA, Size(11, 50),
           JList(<<Loc(sA, sB, sA, sB, sTrue, sA)>>),
           JList(<<Upd(sA, sB, 4, 3, 2020, sA, 7)>>),
           JList(<<Co(sA, sB, sA, sB)>>),
           JList(<<Co(sA, sB, sA, sB)>>)),
    RawRow(JList(<<spAsp, sBlank>>), sA, spA, Size(7, 9),
           JList(<<Loc(sAsp, sB, sA, sB, sOne, sA),
                   Loc(sBlank, sB, sA, sB, sFalse, sA)>>),
           JList(<<Upd(NULL, NULL, NULLINT, NULLINT, NULLINT, NULL, NULLINT)>>),
           JList(<<Co(NULL, NULL, NULL, NULL)>>),
           JList(<<Co(spA, sB, sA, sB), Co(sBlank, sB, sA, sB)>>)),
    RawRow(JNull, NULL, NULL, NoSize, JNull, JNull, JNull, JNull),
    RawRow(JList(<<>>), sEmpty, sEmpty, Size(NULLINT, NULLINT),
           JList(<<>>), JList(<<>>), JList(<<>>), JList(<<>>)),
    RawRow(JList(<<sB, NULL>>), sB, sB, Size(10001, NULLINT),
           JList(<<Loc(sA, NULL, NULL, NULL, NULL, NULL)>>),
           JList(<<Upd(sA, NULL, NULLINT, NULLINT, 2020, sB, NULLINT)>>),
           JList(<<Co(sBlank, sB, sA, sB), Co(sB, NULL, NULL, NULL)>>),
           JList(<<Co(NULL, sB, sA, sB), Co(sB, NULL, NULL, NULL)>>)),
    RawRow(JList(<<sA>>), sBlank, sA, Size(0, 1),
           JList(<<Loc(sB, sB, sA, sB, sFalse, sA),
                   Loc(sB, sB, sA, sB, sEmpty, sA)>>),
           JList(<<Upd(sA, sB, 4, 3, 2020, sA, 7),
                   Upd(sB, sB, 1, 13, 2021, sB, 0)>>),
           JNull, JNull) }

RECURSIVE SeqsUpTo(_, _)
SeqsUpTo(S, n) ==
  IF n = 0 THEN {<<>>}
  ELSE LET shorter == SeqsUpTo(S, n - 1)
       IN  shorter \cup {Append(s, x) : s \in shorter, x \in S}

\* ------------------------------------------------------------------ the store

UnneededColumns ==
  {"exit_data", "acquisitions", "extra", "funding_data", "categories",
   "customer_list"}

\* the columns of company_raw that some INSERT of the script reads
MigratedColumns ==
  {"specialities", "company_type", "industry", "company_size", "locations",
   "updates", "affiliated_companies", "similar_companies"}

RawColumns == UnneededColumns \cup MigratedColumns \cup {"hq"}

DimensionTables ==
  {"specialty", "type", "industry", "ranges", "locations", "similar_companies"}

JunctionTables ==
  {"company_specialty", "company_type", "industry_type", "company_range",
   "company_location", "similar_companies_junction"}

ChildTables == {"company_updates", "affiliated_companies"}

DestTables == DimensionTables \cup JunctionTables \cup ChildTables

\* the dimension table a junction table's FOREIGN KEY references
DimensionOf(j) ==
  CASE j = "company_specialty" -> "specialty"
    [] j = "company_type" -> "type"
    [] j = "industry_type" -> "industry"
    [] j = "company_range" -> "ranges"
    [] j = "company_location" -> "locations"
    [] j = "similar_companies_junction" -> "similar_companies"

\* The database before the first run: company_raw as loaded, no company_id,
\* no destination table.  cols: the columns of company_raw; tables: the
\* destination tables that exist; rows: their rows; dropped: the columns
\* removed from destination tables.
InitDb(raw) ==
  [cols |-> RawColumns, company_raw |-> raw, tables |-> {},
   rows |-> [t \in DestTables |-> <<>>], dropped |-> {}]

\* the outcome of cursor.execute(): the statement's result, or an exception
\* and the database as the failed statement leaves it
Ok(d) == [ok |-> TRUE, db |-> d]
Err(d) == [ok |-> FALSE, db |-> d]

Without(r, cs) == [c \in DOMAIN r \ cs |-> r[c]]

\* ALTER TABLE company_raw DROP COLUMN c1, DROP COLUMN c2, ...:
\* error 1091 when one of the columns does not exist
DropRawColumns(db, cs) ==
  IF cs \subseteq db.cols
  THEN Ok([db EXCEPT !.cols = @ \ cs,
                     !.company_raw = [i \in DOMAIN @ |-> Without(@[i], cs)]])
  ELSE Err(db)

\* ALTER TABLE company_raw ADD COLUMN company_id INT AUTO_INCREMENT PRIMARY KEY
\* FIRST: the existing rows are numbered 1, 2, ...; error 1060 when the column
\* exists
AddCompanyId(db) ==
  IF "company_id" \in db.cols THEN Err(db)
  ELSE Ok([db EXCEPT
             !.cols = @ \cup {"company_id"},
             !.company_raw =
               [i \in DOMAIN @ |->
                  [c \in DOMAIN @[i] \cup {"company_id"} |->
                     IF c = "company_id" THEN i ELSE @[i][c]]]])

\* CREATE TABLE IF NOT EXISTS t (...): nothing when t exists; otherwise the
\* FOREIGN KEYs need company_raw.company_id and the referenced dimension table
CreateTable(db, t) ==
  IF t \in db.tables THEN Ok(db)
  ELSE IF t \in JunctionTables
          /\ ~("company_id" \in db.cols /\ DimensionOf(t) \in db.tables)
  THEN Err(db)
  ELSE IF t \in ChildTables /\ "company_id" \notin db.cols THEN Err(db)
  ELSE Ok([db EXCEPT !.tables = @ \cup {t}])

\* ALTER TABLE t DROP COLUMN c on a destination table
DropDestColumn(db, t, c) ==
  IF t \notin db.tables \/ <<t, c>> \in db.dropped THEN Err(db)
  ELSE Ok([db EXCEPT !.dropped = @ \cup {<<t, c>>},
                     !.rows[t] = [i \in DOMAIN @ |-> Without(@[i], {c})]])

\* ------------------------------------------------------------------ rows

WithId(rec, n) ==
  [c \in DOMAIN rec \cup {"id"} |-> IF c = "id" THEN n ELSE rec[c]]

\* INSERT of recs into a table whose only key is its AUTO_INCREMENT id
AppendRows(tbl, recs) ==
  tbl \o [i \in 1..Len(recs) |-> WithId(recs[i], Len(tbl) + i)]

HasLink(tbl, p) ==
  \E i \in DOMAIN tbl :
    tbl[i].company_id = p.company_id /\ tbl[i].dim_id = p.dim_id

\* a junction table without its UNIQUE (company_id, <dimension id>) key:
\* every selected pair becomes a row
AppendLinks(tbl, pairs) == [ok |-> TRUE, rows |-> AppendRows(tbl, pairs)]

\* INSERT ... ON DUPLICATE KEY UPDATE <dimension id> = <the same id> into a
\* junction table with UNIQUE (company_id, <dimension id>): a pair that is
\* there already is updated to itself, any other pair gets a new row
RECURSIVE UpsertLinks(_, _)
UpsertLinks(tbl, pairs) ==
  IF pairs = <<>> THEN [ok |-> TRUE, rows |-> tbl]
  ELSE IF HasLink(tbl, Head(pairs)) THEN UpsertLinks(tbl, Tail(pairs))
  ELSE UpsertLinks(AppendRows(tbl, <<Head(pairs)>>), Tail(pairs))

\* plain INSERT into a junction table with UNIQUE (company_id, <dimension
\* id>): error 1062 at the first pair that is there already; rows holds what
\* was written before the error
RECURSIVE InsertLinks(_, _)
InsertLinks(tbl, pairs) ==
  IF pairs = <<>> THEN [ok |-> TRUE, rows |-> tbl]
  ELSE IF HasLink(tbl, Head(pairs)) THEN [ok |-> FALSE, rows |-> tbl]
  ELSE InsertLinks(AppendRows(tbl, <<Head(pairs)>>), Tail(pairs))

\* what a failed statement leaves behind on a table without transactions:
\* the rows written before the error
StatementKept(before, partial) == partial

\* ENGINE=INNODB: a statement that fails is rolled back as a whole
StatementRollback(before, partial) == before

\* ------------------------------------------------------------------ extraction

\* d.<name> = <extracted name>
SameName(d, k) == d.name = k.name

Named(s) == [i \in DOMAIN s |-> [name |-> s[i]]]

\* JSON_TABLE(cr.specialities, '$[*]' ...) WHERE cr.specialities IS NOT NULL
\* AND TRIM(jt.specialty) <> ''  ->  TRIM(jt.specialty)
SpecialtyOf(r) ==
  IF r.specialities.isnull THEN <<>>
  ELSE LET kept == SelectSeq(r.specialities.items, NonEmpty)
       IN  Named([i \in DOMAIN kept |-> TRIM(kept[i])])

\* WHERE company_type IS NOT NULL AND TRIM(company_type) <> ''
TypeOf(r) ==
  IF NonEmpty(r.company_type) THEN Named(<<TRIM(r.company_type)>>) ELSE <<>>

\* WHERE industry IS NOT NULL AND TRIM(industry) <> ''
IndustryOf(r) ==
  IF NonEmpty(r.industry) THEN Named(<<TRIM(r.industry)>>) ELSE <<>>

\* the CASE of the ranges statements
RangeLabel(low, high) ==
  CASE low = 0 /\ high = 1 -> <<"0", "-", "1">>
    [] low = 2 /\ high = 10 -> <<"2", "-", "1", "0">>
    [] low = 11 /\ high = 50 -> <<"1", "1", "-", "5", "0">>
    [] low = 51 /\ high = 200 -> <<"5", "1", "-", "2", "0", "0">>
    [] low = 201 /\ high = 500 -> <<"2", "0", "1", "-", "5", "0", "0">>
    [] low = 501 /\ high = 1000 -> <<"5", "0", "1", "-", "1", "0", "0", "0">>
    [] low = 1001 /\ high = 5000 -> <<"1", "0", "0", "1", "-", "5", "0", "0", "0">>
    [] low = 5001 /\ high = 10000 -> <<"5", "0", "0", "1", "-", "1", "0", "0", "0", "0">>
    [] low = 10001 /\ high = NULLINT -> <<"1", "0", "0", "0", "1", "+">>
    [] OTHER -> NULL

\* the SELECT of the ranges statements without the nine pairs in its WHERE
RangeOfUnfiltered(r) ==
  LET z == r.company_size
  IN  IF ~z.isnull /\ z.low # NULLINT
      THEN Named(<<RangeLabel(z.low, z.high)>>)
      ELSE <<>>

\* JSON_TABLE(cr.company_size, '$' COLUMNS (low INT PATH '$[0]', high INT PATH
\* '$[1]')) WHERE cr.company_size IS NOT NULL AND jt.low IS NOT NULL AND (one
\* of the nine pairs)
RangeOf(r) ==
  LET z == r.company_size
  IN  IF ~z.isnull /\ z.low # NULLINT /\ RangeLabel(z.low, z.high) # NULL
      THEN Named(<<RangeLabel(z.low, z.high)>>)
      ELSE <<>>

\* WHEN TRIM(jt.is_hq) IN ('true') in the place of IN ('true', '1')
IsHqTrueOnly(v) == v # NULL /\ TRIM(v) = sTrue

\* CASE WHEN TRIM(jt.is_hq) IN ('true', '1') THEN TRUE ELSE FALSE END
IsHq(v) == v # NULL /\ TRIM(v) \in {sTrue, sOne}

LocationRow(e) ==
  [country |-> TRIM(e.country), city |-> TRIM(e.city),
   postal_code |-> TRIM(e.postal_code), address_line1 |-> TRIM(e.line_1),
   is_hq |-> IsHq(e.is_hq), state |-> TRIM(e.state)]

HasCountry(e) == NonEmpty(e.country)

\* JSON_TABLE(cr.locations, '$[*]' ...) WHERE cr.locations IS NOT NULL AND
\* TRIM(jt.country) <> ''
LocationOf(r) ==
  IF r.locations.isnull THEN <<>>
  ELSE LET kept == SelectSeq(r.locations.items, HasCountry)
       IN  [i \in DOMAIN kept |-> LocationRow(kept[i])]

\* a = b of two nullable columns is true only when neither is NULL
SqlEq(a, b) == a # NULL /\ b # NULL /\ a = b

\* the ON of the company_location join
SameLocation(l, k) ==
  /\ SqlEq(l.country, k.country)
  /\ SqlEq(l.city, k.city)
  /\ SqlEq(l.postal_code, k.postal_code)
  /\ SqlEq(l.address_line1, k.address_line1)
  /\ SqlEq(l.state, k.state)
  /\ l.is_hq = k.is_hq

SimilarRow(e) ==
  [name |-> COALESCE(TRIM(e.name), NoNameProvided),
   linkedin_url |-> COALESCE(TRIM(e.link), NoLinkProvided),
   industry |-> COALESCE(TRIM(e.industry), NoIndustryProvided),
   location |-> COALESCE(TRIM(e.location), NoLocationProvided)]

HasName(e) == NonEmpty(e.name)

\* JSON_TABLE(cr.similar_companies, '$[*]' ...) WHERE cr.similar_companies IS
\* NOT NULL AND TRIM(jt.name) <> ''
SimilarOf(r) ==
  IF r.similar_companies.isnull THEN <<>>
  ELSE LET kept == SelectSeq(r.similar_companies.items, HasName)
       IN  [i \in DOMAIN kept |-> SimilarRow(kept[i])]

\* the ON of the similar_companies_junction join
SameCompany(sc, k) ==
  /\ sc.name = k.name
  /\ sc.linkedin_url = k.linkedin_url
  /\ sc.industry = k.industry
  /\ sc.location = k.location

\* LPAD(n, 2, '0') read back as a number: two digits at most are kept
RECURSIVE Lpad2(_)
Lpad2(n) == IF n >= 100 THEN Lpad2(n \div 10) ELSE n

DaysIn(y, m) ==
  IF m \in {4, 6, 9, 11} THEN 30
  ELSE IF m # 2 THEN 31
  ELSE IF y % 4 = 0 /\ (y % 100 # 0 \/ y % 400 = 0) THEN 29
  ELSE 28

\* COALESCE(jt.year, 1970) in the place of COALESCE(jt.year, 1900)
PostedOnEpoch(e) ==
  [year |-> IF e.year = NULLINT THEN 1970 ELSE e.year,
   month |-> Lpad2(IF e.month = NULLINT THEN 1 ELSE e.month),
   day |-> Lpad2(IF e.day = NULLINT THEN 1 ELSE e.day)]

\* STR_TO_DATE(CONCAT(COALESCE(year, 1900), '-', LPAD(COALESCE(month, 1), 2,
\* '0'), '-', LPAD(COALESCE(day, 1), 2, '0')), '%Y-%m-%d')
PostedOn(e) ==
  [year |-> IF e.year = NULLINT THEN 1900 ELSE e.year,
   month |-> Lpad2(IF e.month = NULLINT THEN 1 ELSE e.month),
   day |-> Lpad2(IF e.day = NULLINT THEN 1 ELSE e.day)]

\* whether STR_TO_DATE yields a date; otherwise it yields NULL, which the
\* INSERT into posted_on DATE NOT NULL rejects
ValidDate(d) ==
  /\ d.year \in 1..9999
  /\ d.month \in 1..12
  /\ d.day \in 1..DaysIn(d.year, d.month)

UpdateRow(cid, e) ==
  [company_id |-> cid,
   article_link |-> COALESCE(e.article_link, NoLinkProvided),
   image |-> COALESCE(e.image, <<>>),
   posted_on |-> PostedOn(e),
   update_text |-> COALESCE(e.text, <<>>),
   total_likes |-> IF e.total_likes = NULLINT THEN 0 ELSE e.total_likes]

\* a LEFT JOIN of company_raw with JSON_TABLE(cr.updates ...): a row without
\* entries is selected once, with every column of the entry NULL
UpdatesOfLeftJoin(r) ==
  IF r.updates.isnull \/ r.updates.items = <<>>
  THEN <<UpdateRow(r.company_id,
                   Upd(NULL, NULL, NULLINT, NULLINT, NULLINT, NULL, NULLINT))>>
  ELSE [i \in DOMAIN r.updates.items |->
          UpdateRow(r.company_id, r.updates.items[i])]

\* JSON_TABLE(cr.updates, '$[*]' ...) WHERE cr.updates IS NOT NULL
UpdatesOf(r) ==
  IF r.updates.isnull THEN <<>>
  ELSE [i \in DOMAIN r.updates.items |->
          UpdateRow(r.company_id, r.updates.items[i])]

AffiliatedRow(cid, e) ==
  [company_id |-> cid,
   name |-> COALESCE(e.name, NoNameProvided),
   linkedin_url |-> COALESCE(e.link, NoLinkProvided),
   industry |-> COALESCE(e.industry, NoIndustryProvided),
   location |-> COALESCE(e.location, NoLocationProvided)]

\* JSON_TABLE(cr.affiliated_companies, '$[*]' ...) WHERE
\* cr.affiliated_companies IS NOT NULL
AffiliatedOf(r) ==
  IF r.affiliated_companies.isnull THEN <<>>
  ELSE [i \in DOMAIN r.affiliated_companies.items |->
          AffiliatedRow(r.company_id, r.affiliated_companies.items[i])]

\* ------------------------------------------------------------------ statements

\* what row r of company_raw contributes to the SELECT of the INSERT into t
SelectedOf(r, t) ==
  CASE t \in {"specialty", "company_specialty"} -> SpecialtyOf(r)
    [] t \in {"type", "company_type"} -> TypeOf(r)
    [] t \in {"industry", "industry_type"} -> IndustryOf(r)
    [] t \in {"ranges", "company_range"} -> RangeOf(r)
    [] t \in {"locations", "company_location"} -> LocationOf(r)
    [] t \in {"similar_companies", "similar_companies_junction"} ->
         SimilarOf(r)
    [] t = "company_updates" -> UpdatesOf(r)
    [] t = "affiliated_companies" -> AffiliatedOf(r)

\* the rows SELECT ... FROM company_raw cr JOIN JSON_TABLE(...) yields for the
\* INSERT into t, in the order of company_raw
Extracted(db, t) ==
  Flatten([i \in DOMAIN db.company_raw |-> SelectedOf(db.company_raw[i], t)])

\* the ON of the join of junction j's INSERT with its dimension table
On(j, d, k) ==
  CASE j = "company_location" -> SameLocation(d, k)
    [] j = "similar_companies_junction" -> SameCompany(d, k)
    [] OTHER -> SameName(d, k)

\* FROM company_raw cr JOIN JSON_TABLE(...) jt JOIN <dimension> d ON ...: one
\* (company_id, dimension id) pair per extracted entry and matching dimension
\* row
Joined(db, j) ==
  Flatten([i \in DOMAIN db.company_raw |->
    LET r == db.company_raw[i]
        ks == SelectedOf(r, j)
    IN  Flatten([n \in DOMAIN ks |->
          LET m == SelectSeq(db.rows[DimensionOf(j)],
                             LAMBDA d : On(j, d, ks[n]))
          IN  [x \in DOMAIN m |->
                 [company_id |-> r.company_id, dim_id |-> m[x].id]]])])

\* the junction INSERTs written with SELECT DISTINCT
SelectsDistinct(j) ==
  j \in {"company_range", "company_location", "similar_companies_junction"}

\* no junction INSERT written with ON DUPLICATE KEY UPDATE
PlainInsert(j) == FALSE

\* the junction INSERTs written with ON DUPLICATE KEY UPDATE
OnDuplicateKeyUpdate(j) ==
  j \in {"company_specialty", "company_type", "industry_type"}

\* the SELECT of the INSERT into junction table j: the (company_id, dimension
\* id) pairs it yields, in order
Selected(db, j) ==
  IF SelectsDistinct(j) THEN Distinct(Joined(db, j)) ELSE Joined(db, j)

\* whether a column of destination table t was dropped (the INSERTs and joins
\* of the script name every column of the tables they use)
Altered(db, t) == \E p \in db.dropped : p[1] = t

\* the columns of company_raw the INSERT into t reads
Reads(t) ==
  CASE t \in {"specialty", "company_specialty"} -> {"specialities"}
    [] t \in {"type", "company_type"} -> {"company_type"}
    [] t \in {"industry", "industry_type"} -> {"industry"}
    [] t \in {"ranges", "company_range"} -> {"company_size"}
    [] t \in {"locations", "company_location"} -> {"locations"}
    [] t = "company_updates" -> {"updates"}
    [] t = "affiliated_companies" -> {"affiliated_companies"}
    [] t \in {"similar_companies", "similar_companies_junction"} ->
         {"similar_companies"}

\* INSERT INTO <dimension> (...) SELECT DISTINCT ... [ON DUPLICATE KEY UPDATE
\* x = x]: the dimension tables have no key but their AUTO_INCREMENT id, so no
\* selected row is ever a duplicate key and every one of them is inserted
InsertDimension(db, t) ==
  IF t \notin db.tables \/ ~(Reads(t) \subseteq db.cols) \/ Altered(db, t)
  THEN Err(db)
  ELSE Ok([db EXCEPT !.rows[t] = AppendRows(@, Distinct(Extracted(db, t)))])

\* INSERT INTO <junction> (company_id, <dimension id>) SELECT ... [ON
\* DUPLICATE KEY UPDATE ...]
InsertJunction(db, j) ==
  LET d == DimensionOf(j)
  IN  IF \/ j \notin db.tables
         \/ d \notin db.tables
         \/ ~((Reads(j) \cup {"company_id"}) \subseteq db.cols)
         \/ Altered(db, d)
      THEN Err(db)
      ELSE LET r == IF OnDuplicateKeyUpdate(j)
                    THEN UpsertLinks(db.rows[j], Selected(db, j))
                    ELSE InsertLinks(db.rows[j], Selected(db, j))
               w == [db EXCEPT !.rows[j] = r.rows]
           IN  IF r.ok THEN Ok(w) ELSE Err(StatementRollback(db, w))

\* whether child table t takes the row: posted_on DATE NOT NULL takes no NULL,
\* which is what STR_TO_DATE makes of a string that is no date
Accepted(t, u) == t = "company_updates" => ValidDate(u.posted_on)

\* the rows of s before the first one that table t rejects
BeforeRejected(t, s) ==
  LET bad == {i \in DOMAIN s : ~Accepted(t, s[i])}
  IN  IF bad = {} THEN s
      ELSE SubSeq(s, 1, (CHOOSE i \in bad : \A j \in bad : i <= j) - 1)

\* INSERT INTO <child table> (company_id, ...) SELECT ...: one row per payload
\* entry; a row the table rejects makes the statement fail
InsertChild(db, t) ==
  IF \/ t \notin db.tables
     \/ ~((Reads(t) \cup {"company_id"}) \subseteq db.cols)
     \/ Altered(db, t)
  THEN Err(db)
  ELSE LET rows == Extracted(db, t)
           good == BeforeRejected(t, rows)
           w == [db EXCEPT !.rows[t] = AppendRows(@, good)]
       IN  IF good = rows THEN Ok(w) ELSE Err(StatementRollback(db, w))

\* the INSERT statements, by the table they fill
Insert(db, t) ==
  IF t \in DimensionTables THEN InsertDimension(db, t)
  ELSE IF t \in JunctionTables THEN InsertJunction(db, t)
  ELSE InsertChild(db, t)

Create(t) == <<"CREATE", t>>
Ins(t) == <<"INSERT", t>>
Drop(t, c) == <<"DROP", t, c>>

\* the list with the junction INSERT of a category in front of its dimension
\* INSERT
QueriesJunctionFirst ==
  << <<"DROP_UNNEEDED">>, <<"ADD_ID">>,
     Create("specialty"), Create("company_specialty"),
     Create("type"), Create("company_type"),
     Create("industry"), Create("industry_type"),
     Create("ranges"), Create("company_range"),
     Create("locations"), Create("company_location"),
     Create("company_updates"), Create("affiliated_companies"),
     Create("similar_companies"), Create("similar_companies_junction"),
     Ins("company_specialty"), Ins("specialty"),
     Ins("type"), Ins("company_type"),
     Ins("industry"), Ins("industry_type"),
     Ins("ranges"), Ins("company_range"),
     Ins("locations"), Ins("company_location"),
     Ins("company_updates"), Ins("affiliated_companies"),
     Ins("similar_companies"), Ins("similar_companies_junction"),
     Drop("company_raw", "industry"),
     Drop("company_raw", "hq"),
     Drop("company_raw", "company_type"),
     Drop("company_raw", "specialities"),
     Drop("company_raw", "locations"),
     Drop("company_raw", "similar_companies"),
     Drop("company_raw", "affiliated_companies"),
     Drop("company_raw", "updates"),
     Drop("affiliated_companies", "location"),
     Drop("similar_companies", "location") >>

\* the list with a cleanup statement moved in front of the INSERTs
QueriesDropEarly ==
  << <<"DROP_UNNEEDED">>, <<"ADD_ID">>,
     Create("specialty"), Create("company_specialty"),
     Create("type"), Create("company_type"),
     Create("industry"), Create("industry_type"),
     Create("ranges"), Create("company_range"),
     Create("locations"), Create("company_location"),
     Create("company_updates"), Create("affiliated_companies"),
     Create("similar_companies"), Create("similar_companies_junction"),
     Drop("company_raw", "industry"),
     Ins("specialty"), Ins("company_specialty"),
     Ins("type"), Ins("company_type"),
     Ins("industry"), Ins("industry_type"),
     Ins("ranges"), Ins("company_range"),
     Ins("locations"), Ins("company_location"),
     Ins("company_updates"), Ins("affiliated_companies"),
     Ins("similar_companies"), Ins("similar_companies_junction"),
     Drop("company_raw", "hq"),
     Drop("company_raw", "company_type"),
     Drop("company_raw", "specialities"),
     Drop("company_raw", "locations"),
     Drop("company_raw", "similar_companies"),
     Drop("company_raw", "affiliated_companies"),
     Drop("company_raw", "updates"),
     Drop("affiliated_companies", "location"),
     Drop("similar_companies", "location") >>

\* queries: the statements in the order they are run
Queries ==
  << <<"DROP_UNNEEDED">>, <<"ADD_ID">>,
     Create("specialty"), Create("company_specialty"),
     Create("type"), Create("company_type"),
     Create("industry"), Create("industry_type"),
     Create("ranges"), Create("company_range"),
     Create("locations"), Create("company_location"),
     Create("company_updates"), Create("affiliated_companies"),
     Create("similar_companies"), Create("similar_companies_junction"),
     Ins("specialty"), Ins("company_specialty"),
     Ins("type"), Ins("company_type"),
     Ins("industry"), Ins("industry_type"),
     Ins("ranges"), Ins("company_range"),
     Ins("locations"), Ins("company_location"),
     Ins("company_updates"), Ins("affiliated_companies"),
     Ins("similar_companies"), Ins("similar_companies_junction"),
     Drop("company_raw", "industry"),
     Drop("company_raw", "hq"),
     Drop("company_raw", "company_type"),
     Drop("company_raw", "specialities"),
     Drop("company_raw", "locations"),
     Drop("company_raw", "similar_companies"),
     Drop("company_raw", "affiliated_companies"),
     Drop("company_raw", "updates"),
     Drop("affiliated_companies", "location"),
     Drop("similar_companies", "location") >>

NQueries == Len(Queries)

IsInsert(k) == Queries[k][1] = "INSERT"

\* the cleanup statements: ALTER TABLE ... DROP COLUMN after the INSERTs
IsCleanup(k) == Queries[k][1] = "DROP"

\* DDL commits implicitly, before connection.commit() is reached
IsDDL(k) == ~IsInsert(k)

\* cursor.execute(query) on the database d
Execute(q, d) ==
  CASE q[1] = "DROP_UNNEEDED" -> DropRawColumns(d, UnneededColumns)
    [] q[1] = "ADD_ID" -> AddCompanyId(d)
    [] q[1] = "CREATE" -> CreateTable(d, q[2])
    [] q[1] = "INSERT" -> Insert(d, q[2])
    [] q[1] = "DROP" ->
         IF q[2] = "company_raw" THEN DropRawColumns(d, {q[3]})
         ELSE DropDestColumn(d, q[2], q[3])

\* ------------------------------------------------------------------ run_migration

VARIABLES
  raw0,      \* company_raw as it was before the first run
  db,        \* the committed database
  session,   \* the database as the connection sees it (db and what it has
             \* written since its last commit)
  pc,        \* the statement of the loop: 1..NQueries, NQueries + 1 once the
             \* loop is through, 0 once an exception has ended the run
  step,      \* "execute" or "commit": the call of the loop body that is next
  run,       \* the runs of run_migration so far, this one included
  errors,    \* the store errors raised so far
  executed,  \* the statements cursor.execute() was called with in this run
  done,      \* the statements executed and committed in this run
  failed,    \* the statement that raised in this run, and where
  start,     \* the committed database when this run started
  prev,      \* how the run before this one ended, the database it left and
             \* the statement that raised in it
  open,      \* what this run has acquired and not closed: "connection",
             \* "cursor"
  last,      \* statement-level runs: the statement applied last
  execs      \* statement-level runs: the statements applied so far

vars ==
  <<raw0, db, session, pc, step, run, errors, executed, done, failed, start,
    prev, open, last, execs>>

Raws == SeqsUpTo(RawRows, MaxRows)

Running == pc \in 1..NQueries
Failed == pc = 0
Complete == pc = NQueries + 1

NoFailure == [stmt |-> 0, at |-> "none", cause |-> "none"]

\* the statements j..k applied to d in turn, up to the first that raises
RECURSIVE RunFrom(_, _, _)
RunFrom(d, j, k) ==
  IF j > k THEN d
  ELSE LET r == Execute(Queries[j], d)
       IN  IF r.ok THEN RunFrom(r.db, j + 1, k) ELSE r.db

\* the statements 1..k applied to d
RunPrefix(d, k) == RunFrom(d, 1, k)

\* the database after p rows of what a statement writes were written
PartialWrite(d, after, p) ==
  [d EXCEPT !.rows =
     [t \in DestTables |->
        SubSeq(after.rows[t], 1, Min(Len(after.rows[t]), Len(d.rows[t]) + p))]]

\* connection = mysql.connector.connect(...); cursor = connection.cursor()
Acquired == {"connection", "cursor"}

\* cursor.close(); connection.close(), reached when the loop is through
Closed(o, k) == IF k = NQueries THEN {} ELSE o

\* a try/except around the loop body that goes on with the next statement
ContinueAfterException(k) == k + 1

\* an exception of cursor.execute() or connection.commit() is not caught: it
\* leaves the loop and run_migration
AfterException(k) == 0

Init ==
  /\ raw0 \in Raws
  /\ db = InitDb(raw0)
  /\ session = db
  /\ pc = 1
  /\ step = "execute"
  /\ run = 1
  /\ errors = 0
  /\ executed = {}
  /\ done = {}
  /\ failed = NoFailure
  /\ start = db
  /\ prev = [outcome |-> "none", db |-> db, failed |-> NoFailure]
  /\ open = Acquired
  /\ last = [stmt |-> 0, ok |-> TRUE, before |-> db]
  /\ execs = 0

\* the exception ends the run: cursor.close() and connection.close() are not
\* reached; the connection is dropped with the process and what it had not
\* committed is gone: d is what the store keeps
Raise(d, at, cause) ==
  /\ pc' = AfterException(pc)
  /\ open' = open
  /\ step' = "execute"
  /\ failed' = [stmt |-> pc, at |-> at, cause |-> cause]
  /\ db' = d
  /\ session' = d

\* cursor.execute(query) returns
ExecuteOk ==
  /\ Running
  /\ step = "execute"
  /\ LET r == Execute(Queries[pc], session)
     IN  /\ r.ok
         /\ session' = r.db
         /\ db' = IF IsDDL(pc) THEN r.db ELSE db
  /\ step' = "commit"
  /\ executed' = executed \cup {pc}
  /\ UNCHANGED <<raw0, pc, run, errors, done, failed, start, prev, open, last,
                 execs>>

\* cursor.execute(query) raises because the statement cannot be executed on
\* the database as it is
ExecuteError ==
  /\ Running
  /\ step = "execute"
  /\ LET r == Execute(Queries[pc], session)
     IN  /\ ~r.ok
         /\ Raise(r.db, "execute", "statement")
  /\ executed' = executed \cup {pc}
  /\ UNCHANGED <<raw0, run, errors, done, start, prev, last, execs>>

\* cursor.execute(query) raises a store error (lost connection, lock wait
\* timeout, ...) after the statement has written p rows
StoreError ==
  /\ Running
  /\ step = "execute"
  /\ errors < MaxStoreErrors
  /\ LET r == Execute(Queries[pc], session)
     IN  /\ r.ok
         /\ \E p \in 0..MaxPartial :
              Raise(IF IsDDL(pc) THEN db
                    ELSE StatementRollback(session,
                                           PartialWrite(session, r.db, p)),
                    "execute", "store")
  /\ errors' = errors + 1
  /\ executed' = executed \cup {pc}
  /\ UNCHANGED <<raw0, run, done, start, prev, last, execs>>

\* connection.commit() returns; after the last statement the loop is through
\* and cursor.close(), connection.close() follow
CommitOk ==
  /\ Running
  /\ step = "commit"
  /\ db' = session
  /\ done' = done \cup {pc}
  /\ pc' = pc + 1
  /\ step' = "execute"
  /\ open' = Closed(open, pc)
  /\ UNCHANGED <<raw0, session, run, errors, executed, failed, start, prev,
                 last, execs>>

\* connection.commit() raises: what the statement wrote is not committed
\* (DDL was committed by the statement itself)
CommitError ==
  /\ Running
  /\ step = "commit"
  /\ errors < MaxStoreErrors
  /\ Raise(db, "commit", "store")
  /\ errors' = errors + 1
  /\ UNCHANGED <<raw0, run, executed, done, start, prev, last, execs>>

\* run_migration is started again, from the top, on the database as it is
Rerun ==
  /\ Failed \/ Complete
  /\ run < MaxRuns
  /\ run' = run + 1
  /\ pc' = 1
  /\ step' = "execute"
  /\ executed' = {}
  /\ done' = {}
  /\ failed' = NoFailure
  /\ start' = db
  /\ prev' = [outcome |-> IF Failed THEN "failed" ELSE "complete", db |-> db,
              failed |-> failed]
  /\ session' = db
  /\ open' = Acquired
  /\ UNCHANGED <<raw0, db, errors, last, execs>>

Next ==
  \/ ExecuteOk
  \/ ExecuteError
  \/ StoreError
  \/ CommitOk
  \/ CommitError
  \/ Rerun

Spec == Init /\ [][Next]_vars

\* ------------------------------------------------------------------ statements alone

\* Each INSERT of the list as an operation of its own: the loop body
\* (execute, commit) applied to a database in which company_id and the
\* destination tables exist, in any order and more than once.

InsertStatements == {k \in 1..NQueries : IsInsert(k)}

\* the database after the statements before the first INSERT
SchemaReady(raw) ==
  RunPrefix(InitDb(raw), (CHOOSE k \in InsertStatements :
                            \A j \in InsertStatements : k <= j) - 1)

InitStmt ==
  /\ raw0 \in Raws
  /\ db = SchemaReady(raw0)
  /\ session = db
  /\ pc = 1
  /\ step = "execute"
  /\ run = 1
  /\ errors = 0
  /\ executed = {}
  /\ done = {}
  /\ failed = NoFailure
  /\ start = db
  /\ prev = [outcome |-> "none", db |-> db, failed |-> NoFailure]
  /\ open = Acquired
  /\ last = [stmt |-> 0, ok |-> TRUE, before |-> db]
  /\ execs = 0

Apply(k, ok) ==
  /\ execs < MaxExecs
  /\ LET r == Execute(Queries[k], db)
     IN  /\ r.ok = ok
         /\ db' = r.db
         /\ session' = r.db
  /\ last' = [stmt |-> k, ok |-> ok, before |-> db]
  /\ execs' = execs + 1
  /\ UNCHANGED <<raw0, pc, step, run, errors, executed, done, failed, start,
                 prev, open>>

\* cursor.execute(query); connection.commit()
ApplyOk == \E k \in InsertStatements : Apply(k, TRUE)

\* cursor.execute(query) raises
ApplyError == \E k \in InsertStatements : Apply(k, FALSE)

NextStmt ==
  \/ ApplyOk
  \/ ApplyError

SpecStmt == InitStmt /\ [][NextStmt]_vars

\* ------------------------------------------------------------------ properties

\* the statement that fills table t
InsertOf(t) == CHOOSE k \in InsertStatements : Queries[k][2] = t

\* the INSERT statements that read column c of company_raw
Readers(c) == {k \in InsertStatements : c \in Reads(Queries[k][2])}

\* C1: run_migration run a second time, right after a complete run and with
\* no store error, does not fail and leaves every destination table as the
\* first run left it.
C1_SecondRunIdempotent ==
  (prev.outcome = "complete" /\ errors = 0) =>
    (~Failed /\ db.rows = prev.db.rows)

\* C2: a run that follows a run which failed at the execute() of some
\* statement, and in which the store raises no error of its own, does not
\* fail, and once it is complete the database is the one an uninterrupted run
\* from the original company_raw produces.
C2_RerunConverges ==
  (prev.outcome = "failed" /\ prev.failed.at = "execute"
     /\ failed.cause # "store") =>
    /\ ~Failed
    /\ Complete => db = RunPrefix(InitDb(raw0), NQueries)

ScalarDimensions == {"specialty", "type", "industry"}

JunctionOf(d) == CHOOSE j \in JunctionTables : DimensionOf(j) = d

\* the trimmed non-empty values row r of company_raw holds for dimension d
ScalarValues(r, d) ==
  CASE d = "specialty" ->
         IF r.specialities.isnull THEN {}
         ELSE {TRIM(x) : x \in {y \in Range(r.specialities.items) :
                                  y # NULL /\ TRIM(y) # <<>>}}
    [] d = "type" ->
         IF r.company_type # NULL /\ TRIM(r.company_type) # <<>>
         THEN {TRIM(r.company_type)} ELSE {}
    [] d = "industry" ->
         IF r.industry # NULL /\ TRIM(r.industry) # <<>>
         THEN {TRIM(r.industry)} ELSE {}

\* the rows of company_raw (by company_id) whose payload holds v
Owners(d, v) == {i \in DOMAIN raw0 : v \in ScalarValues(raw0[i], d)}

AllValues(d) == UNION {ScalarValues(raw0[i], d) : i \in DOMAIN raw0}

EntriesOf(d, v) == {i \in DOMAIN db.rows[d] : db.rows[d][i].name = v}

LinksTo(j, id) == {i \in DOMAIN db.rows[j] : db.rows[j][i].dim_id = id}

\* C3: after a complete run, every trimmed non-empty value of a scalar
\* dimension has exactly one row in the dimension table, and the junction
\* table holds exactly one link to it per row of company_raw that has the
\* value, and no other link to it.
C3_DedupCorrect ==
  Complete =>
    \A d \in ScalarDimensions : \A v \in AllValues(d) :
      /\ Cardinality(EntriesOf(d, v)) = 1
      /\ \A e \in EntriesOf(d, v) :
           LET links == LinksTo(JunctionOf(d), db.rows[d][e].id)
           IN  /\ Cardinality(links) = Cardinality(Owners(d, v))
               /\ {db.rows[JunctionOf(d)][i].company_id : i \in links}
                    = Owners(d, v)

\* a complete run in which two rows of company_raw share a specialty that
\* they spell with different surrounding spaces, one of them twice
C3_Witness ==
  /\ Complete
  /\ \E v \in AllValues("specialty") :
       /\ Cardinality(Owners("specialty", v)) = 2
       /\ \E i \in Owners("specialty", v) :
            \E a, b \in DOMAIN raw0[i].specialities.items :
              /\ a # b
              /\ raw0[i].specialities.items[a] # raw0[i].specialities.items[b]
              /\ TRIM(raw0[i].specialities.items[a]) = v
              /\ TRIM(raw0[i].specialities.items[b]) = v

\* two rows of a table that differ in their id at most
SameEntry(a, b) == Without(a, {"id"}) = Without(b, {"id"})

Count(tbl, x) == Cardinality({i \in DOMAIN tbl : SameEntry(tbl[i], x)})

\* C4: a dimension INSERT applied to a dimension table that holds one entry
\* for a value adds no second one: every entry that was there once is there
\* once afterwards.
C4_NoDuplicateEntry ==
  \A t \in DimensionTables :
    (last.stmt = InsertOf(t) /\ last.ok) =>
      \A i \in DOMAIN last.before.rows[t] :
        Count(last.before.rows[t], last.before.rows[t][i]) = 1 =>
          Count(db.rows[t], last.before.rows[t][i]) = 1

NoDuplicateLinks(d) ==
  \A j \in JunctionTables : \A a, b \in DOMAIN d.rows[j] :
    (/\ d.rows[j][a].company_id = d.rows[j][b].company_id
     /\ d.rows[j][a].dim_id = d.rows[j][b].dim_id) => a = b

\* C5: no junction table ever holds two rows with the same (company_id,
\* dimension id) pair, committed or not.
C5_NoDuplicateLinks == NoDuplicateLinks(db) /\ NoDuplicateLinks(session)

\* a run after a failed one, with the links of a row of company_raw that
\* lists one specialty twice in the table
C5_Witness ==
  /\ run > 1
  /\ prev.outcome = "failed"
  /\ \E i \in DOMAIN raw0 : \E a, b \in DOMAIN raw0[i].specialities.items :
       /\ a # b
       /\ NonEmpty(raw0[i].specialities.items[a])
       /\ TRIM(raw0[i].specialities.items[a])
            = TRIM(raw0[i].specialities.items[b])
       /\ \E k \in DOMAIN db.rows["company_specialty"] :
            db.rows["company_specialty"][k].company_id = i

\* C6: a junction INSERT applied when every link it selects is in the table
\* already raises no error and leaves the table as it was.
C6_JunctionUpsert ==
  \A j \in JunctionTables :
    (/\ last.stmt = InsertOf(j)
     /\ Selected(last.before, j) # <<>>
     /\ \A p \in Range(Selected(last.before, j)) :
          HasLink(last.before.rows[j], p)) =>
      (last.ok /\ db.rows[j] = last.before.rows[j])

\* C7: in a run in which an INSERT raised, no cleanup statement is executed.
C7_NoCleanupAfterFailedInsert ==
  (failed.stmt # 0 /\ IsInsert(failed.stmt)) =>
    {k \in executed : IsCleanup(k)} = {}

\* a run ended by an INSERT that the store rejected
C7_Witness ==
  /\ Failed
  /\ IsInsert(failed.stmt)
  /\ failed.cause = "statement"

\* C8 as stated: a step removes a column of company_raw only if some INSERT
\* reads the column and every INSERT that reads it has been executed and
\* committed in this run.
C8_RemovedOnlyAfterMigrated ==
  [][\A c \in RawColumns :
       (c \in db.cols /\ c \notin db'.cols) =>
         (Readers(c) # {} /\ Readers(c) \subseteq done)]_vars

\* C8 amended: a step removes a column that some INSERT reads only if every
\* INSERT that reads it has been executed and committed in this run; the
\* other columns go without having been migrated, the six unneeded ones by
\* the first statement and hq by a cleanup statement.
C8_MigratedRemovedAfterInserts ==
  [][\A c \in RawColumns :
       (c \in db.cols /\ c \notin db'.cols) =>
         /\ c \in MigratedColumns => Readers(c) \subseteq done
         /\ c \in UnneededColumns => pc = 1
         /\ c = "hq" => InsertStatements \subseteq done]_vars

\* a run that has removed the column industry after both INSERTs that read it
C8_Witness ==
  /\ Running
  /\ "industry" \notin db.cols
  /\ Cardinality(Readers("industry")) = 2
  /\ Readers("industry") \subseteq done
  /\ db.rows["industry_type"] # <<>>

\* C9: after a failure no category is left half written: the junction INSERT
\* of a category has not failed with the category's dimension rows committed
\* and its links absent.
C9_CategoryAtomic ==
  Failed =>
    \A j \in JunctionTables :
      ~(/\ failed.stmt = InsertOf(j)
        /\ db.rows[DimensionOf(j)] # <<>>
        /\ db.rows[j] = <<>>)

\* C10: when execute() of statement k raises, the committed database is the
\* one the statements 1..k-1 produce from the database the run started on,
\* and the statements executed in the run are 1..k.
C10_FailureKeepsPrefix ==
  (Failed /\ failed.at = "execute") =>
    /\ db = RunPrefix(start, failed.stmt - 1)
    /\ executed = 1..failed.stmt

\* a run ended by the INSERT into company_updates, which raised at its second
\* row: the row it had written is gone, the tables filled before it are kept
C10_Witness ==
  /\ Failed
  /\ failed.at = "execute"
  /\ failed.stmt = InsertOf("company_updates")
  /\ BeforeRejected("company_updates", Extracted(db, "company_updates")) # <<>>
  /\ db.rows["company_updates"] = <<>>
  /\ db.rows["specialty"] # <<>>
  /\ db.rows["company_specialty"] # <<>>

\* ------------------------------------------------------------------ payload rules

\* the destination tables filled from column c of company_raw
TablesOf(c) == {t \in DestTables : c \in Reads(t)}

\* whether row r holds nothing in column c: NULL, or an empty JSON array (for
\* company_size, [] gives low and high NULL), or an empty text
EmptyPayload(r, c) ==
  CASE c = "company_size" ->
         r[c].isnull \/ (r[c].low = NULLINT /\ r[c].high = NULLINT)
    [] c \in {"company_type", "industry"} -> r[c] = NULL \/ r[c] = <<>>
    [] OTHER -> r[c].isnull \/ r[c].items = <<>>

\* the rows of raw with the company_id that statement 2 gives them
Numbered(raw) ==
  [i \in DOMAIN raw |->
     [c \in DOMAIN raw[i] \cup {"company_id"} |->
        IF c = "company_id" THEN i ELSE raw[i][c]]]

\* the rows of raw that hold something in column c
Holding(raw, c) == SelectSeq(Numbered(raw), LAMBDA r : ~EmptyPayload(r, c))

\* what SELECT DISTINCT of the INSERT into dimension table t yields over rows
FromRows(rows, t) ==
  AppendRows(<<>>, Distinct(Flatten([i \in DOMAIN rows |->
                                       SelectedOf(rows[i], t)])))

\* C11: a row of company_raw whose payload for a category is NULL or empty
\* has no junction link and no child record of that category, the dimension
\* table of the category holds what the rows with a payload give, and an INSERT
\* that is rejected reads a column in which some row holds something.
C11_EmptyPayloadContributesNothing ==
  /\ \A c \in MigratedColumns : \A t \in TablesOf(c) :
       /\ t \notin DimensionTables =>
            \A i \in DOMAIN raw0 :
              EmptyPayload(raw0[i], c) =>
                \A n \in DOMAIN session.rows[t] :
                  session.rows[t][n].company_id # i
       /\ (t \in DimensionTables /\ InsertOf(t) \in done /\ ~Altered(db, t)) =>
            db.rows[t] = FromRows(Holding(raw0, c), t)
       /\ (\A i \in DOMAIN raw0 : EmptyPayload(raw0[i], c)) =>
            session.rows[t] = <<>>
  /\ (failed.cause = "statement" /\ IsInsert(failed.stmt)) =>
       \E c \in Reads(Queries[failed.stmt][2]) : \E i \in DOMAIN raw0 :
         ~EmptyPayload(raw0[i], c)

\* a complete run over a row whose payloads are all empty arrays or NULL and
\* a row that has links
C11_Witness ==
  /\ Complete
  /\ \E i, j \in DOMAIN raw0 :
       /\ \A c \in MigratedColumns : EmptyPayload(raw0[i], c)
       /\ ~raw0[i].updates.isnull
       /\ ~raw0[i].company_size.isnull
       /\ \E n \in DOMAIN db.rows["company_specialty"] :
            db.rows["company_specialty"][n].company_id = j
       /\ db.rows["company_updates"] # <<>>

\* the tables whose rows have an identity field, and the field
IdentityTables ==
  {"specialty", "type", "industry", "locations", "similar_companies",
   "affiliated_companies"}

Identity(t) == IF t = "locations" THEN "country" ELSE "name"

\* the identity values row r of company_raw holds for table t, as written in
\* the payload
SourceIdentities(r, t) ==
  CASE t = "specialty" -> Range(r.specialities.items)
    [] t = "type" -> {r.company_type}
    [] t = "industry" -> {r.industry}
    [] t = "locations" -> {e.country : e \in Range(r.locations.items)}
    [] t = "similar_companies" ->
         {e.name : e \in Range(r.similar_companies.items)}
    [] t = "affiliated_companies" ->
         {e.name : e \in Range(r.affiliated_companies.items)}

\* the entries of the affiliated_companies payload of r whose name is not
\* empty after trimming
NamedAffiliates(r) ==
  {n \in DOMAIN r.affiliated_companies.items :
     NonEmpty(r.affiliated_companies.items[n].name)}

\* C12: every stored identity value is the trimmed, non-empty value of some
\* payload entry, and a row of company_raw has as many child records in
\* affiliated_companies as its payload has entries with a name that is not
\* empty after trimming.
C12_IdentityTrimmedNonEmpty ==
  /\ \A t \in IdentityTables : \A n \in DOMAIN db.rows[t] :
       LET v == db.rows[t][n][Identity(t)]
       IN  /\ v # <<>>
           /\ \E i \in DOMAIN raw0 : \E x \in SourceIdentities(raw0[i], t) :
                x # NULL /\ v = TRIM(x)
  /\ InsertOf("affiliated_companies") \in done =>
       \A i \in DOMAIN raw0 :
         Cardinality({n \in DOMAIN db.rows["affiliated_companies"] :
                        db.rows["affiliated_companies"][n].company_id = i})
           = Cardinality(NamedAffiliates(raw0[i]))

\* the pairs (low, high) of the WHERE of the two ranges statements
EnumeratedPairs ==
  {<<0, 1>>, <<2, 10>>, <<11, 50>>, <<51, 200>>, <<201, 500>>, <<501, 1000>>,
   <<1001, 5000>>, <<5001, 10000>>, <<10001, NULLINT>>}

\* the decimal digits of n
RECURSIVE Digits(_)
Digits(n) ==
  LET d == <<"0", "1", "2", "3", "4", "5", "6", "7", "8", "9">>[(n % 10) + 1]
  IN  IF n < 10 THEN <<d>> ELSE Append(Digits(n \div 10), d)

\* the label of a bucket: 'low-high', or 'low+' for the open one
BucketLabel(low, high) ==
  IF high = NULLINT THEN Append(Digits(low), "+")
  ELSE Digits(low) \o <<"-">> \o Digits(high)

\* pairs next to the enumerated ones
OtherPairs ==
  {<<7, 9>>, <<0, NULLINT>>, <<1, 10>>, <<11, 51>>, <<10001, 20000>>,
   <<10001, 0>>, <<NULLINT, 1>>, <<NULLINT, NULLINT>>}

LinksOf(j, i) == {n \in DOMAIN db.rows[j] : db.rows[j][n].company_id = i}

\* C13: once the two ranges statements are through, ranges holds one entry
\* per bucket that some row's company_size names, labelled 'low-high' (or
\* '10001+'), a row whose pair is one of the nine has one company_range link,
\* to the entry of its bucket, a row with any other pair has none, and neither
\* statement is rejected.
C13_RangeBucketing ==
  /\ \A p \in EnumeratedPairs \cup OtherPairs :
       RangeOf([company_size |-> Size(p[1], p[2])]) =
         IF p \in EnumeratedPairs THEN Named(<<BucketLabel(p[1], p[2])>>)
         ELSE <<>>
  /\ InsertOf("ranges") \in done =>
       /\ {e.name : e \in Range(db.rows["ranges"])} =
            {BucketLabel(raw0[i].company_size.low, raw0[i].company_size.high) :
               i \in {n \in DOMAIN raw0 :
                        /\ ~raw0[n].company_size.isnull
                        /\ <<raw0[n].company_size.low,
                             raw0[n].company_size.high>> \in EnumeratedPairs}}
       /\ Cardinality({e.name : e \in Range(db.rows["ranges"])})
            = Len(db.rows["ranges"])
  /\ InsertOf("company_range") \in done =>
       \A i \in DOMAIN raw0 :
         LET z == raw0[i].company_size
         IN  IF ~z.isnull /\ <<z.low, z.high>> \in EnumeratedPairs
             THEN /\ Cardinality(LinksOf("company_range", i)) = 1
                  /\ \A n \in LinksOf("company_range", i) :
                       \E e \in Range(db.rows["ranges"]) :
                         /\ e.id = db.rows["company_range"][n].dim_id
                         /\ e.name = BucketLabel(z.low, z.high)
                         /\ (z.low = 11 /\ z.high = 50) =>
                              e.name = <<"1", "1", "-", "5", "0">>
             ELSE LinksOf("company_range", i) = {}
  /\ failed.cause = "statement" =>
       failed.stmt \notin {InsertOf("ranges"), InsertOf("company_range")}

\* both ranges statements are through over a row of size (11, 50), linked to
\* '11-50', and a row of size (7, 9)
C13_Witness ==
  /\ InsertOf("company_range") \in done
  /\ \E i, j \in DOMAIN raw0 :
       /\ raw0[i].company_size = Size(11, 50)
       /\ raw0[j].company_size = Size(7, 9)
       /\ LinksOf("company_range", i) # {}
       /\ LinksOf("company_range", j) = {}
  /\ \E e \in Range(db.rows["ranges"]) : e.name = <<"1", "1", "-", "5", "0">>

Date(y, m, d) == [year |-> y, month |-> m, day |-> d]

\* year, month and day of an update entry, 1900, 1 and 1 for the absent ones
Defaulted(e) ==
  Date(IF e.year = NULLINT THEN 1900 ELSE e.year,
       IF e.month = NULLINT THEN 1 ELSE e.month,
       IF e.day = NULLINT THEN 1 ELSE e.day)

\* the child records of company i in table t, in the order of their insertion
RecordsOf(t, i) == SelectSeq(db.rows[t], LAMBDA u : u.company_id = i)

\* C14: once the INSERT into company_updates is through, every row of
\* company_raw has one record per entry of its updates payload, in the order
\* of the payload, and the record's posted_on is the entry's year, month and
\* day with 1900, 1 and 1 for the absent ones.
C14_PostedOnDefaults ==
  InsertOf("company_updates") \in done =>
    \A i \in DOMAIN raw0 :
      /\ Len(RecordsOf("company_updates", i)) = Len(raw0[i].updates.items)
      /\ \A n \in DOMAIN raw0[i].updates.items :
           RecordsOf("company_updates", i)[n].posted_on
             = Defaulted(raw0[i].updates.items[n])

\* the INSERT into company_updates is through over an entry without day,
\* month and year, stored as 1900-01-01, and an entry with the year 2020
\* alone, stored as 2020-01-01
C14_Witness ==
  /\ InsertOf("company_updates") \in done
  /\ \E i, j \in DOMAIN raw0 :
       /\ raw0[i].updates.items
            = <<Upd(NULL, NULL, NULLINT, NULLINT, NULLINT, NULL, NULLINT)>>
       /\ RecordsOf("company_updates", i)[1].posted_on = Date(1900, 1, 1)
       /\ raw0[j].updates.items
            = <<Upd(sA, NULL, NULLINT, NULLINT, 2020, sB, NULLINT)>>
       /\ RecordsOf("company_updates", j)[1].posted_on = Date(2020, 1, 1)

\* whether the text v, trimmed, is 'true' or '1'
Truthy(v) ==
  /\ v # NULL
  /\ \/ TRIM(v) = <<"t", "r", "u", "e">>
     \/ TRIM(v) = <<"1">>

\* whether l is the locations row built from payload entry e
BuiltFrom(l, e) ==
  /\ l.country = TRIM(e.country)
  /\ l.city = TRIM(e.city)
  /\ l.postal_code = TRIM(e.postal_code)
  /\ l.address_line1 = TRIM(e.line_1)
  /\ l.state = TRIM(e.state)
  /\ l.is_hq = Truthy(e.is_hq)

\* the entries of the locations payload of r that have a country
Located(r) == {e \in Range(r.locations.items) : NonEmpty(e.country)}

\* whether payload entry e has every field the company_location join compares
AllFields(e) ==
  NULL \notin {e.country, e.city, e.postal_code, e.line_1, e.state}

\* C15: 'true' and '1' (trimmed) are stored as is_hq TRUE, 'false', '', any
\* other text and an absent field as FALSE: once the INSERT into locations is
\* through, every entry with a country has its locations row with is_hq so
\* coerced and every locations row is the row of such an entry; once the
\* INSERT into company_location is through, every link of a company leads to
\* the row of one of its entries, is_hq coerced the same way, and every entry
\* that has all fields is linked.
C15_IsHqCoercion ==
  /\ IsHq(sTrue) /\ IsHq(sOne) /\ IsHq(<<" ", "1", " ">>)
  /\ ~IsHq(sFalse) /\ ~IsHq(sEmpty) /\ ~IsHq(NULL) /\ ~IsHq(sBlank)
  /\ ~IsHq(<<"0">>) /\ ~IsHq(sA)
  /\ InsertOf("locations") \in done =>
       /\ \A i \in DOMAIN raw0 : \A e \in Located(raw0[i]) :
            \E l \in Range(db.rows["locations"]) : BuiltFrom(l, e)
       /\ \A l \in Range(db.rows["locations"]) :
            \E i \in DOMAIN raw0 : \E e \in Located(raw0[i]) : BuiltFrom(l, e)
  /\ InsertOf("company_location") \in done =>
       \A i \in DOMAIN raw0 :
         /\ \A n \in LinksOf("company_location", i) :
              \E l \in Range(db.rows["locations"]) :
                /\ l.id = db.rows["company_location"][n].dim_id
                /\ \E e \in Located(raw0[i]) : BuiltFrom(l, e)
         /\ \A e \in Located(raw0[i]) :
              AllFields(e) =>
                \E n \in LinksOf("company_location", i) :
                  \E l \in Range(db.rows["locations"]) :
                    /\ l.id = db.rows["company_location"][n].dim_id
                    /\ BuiltFrom(l, e)

\* both locations statements are through over an entry with is_hq '1',
\* linked to a row with is_hq TRUE, and entries with is_hq 'false' and '',
\* linked to a row with is_hq FALSE
C15_Witness ==
  /\ InsertOf("company_location") \in done
  /\ \E i, j \in DOMAIN raw0 :
       /\ \E e \in Located(raw0[i]) :
            /\ e.is_hq = sOne
            /\ \E n \in LinksOf("company_location", i) :
                 \E l \in Range(db.rows["locations"]) :
                   /\ l.id = db.rows["company_location"][n].dim_id
                   /\ l.is_hq
       /\ \E e, f \in Located(raw0[j]) :
            /\ e.is_hq = sFalse
            /\ f.is_hq = sEmpty
            /\ \E n \in LinksOf("company_location", j) :
                 \E l \in Range(db.rows["locations"]) :
                   /\ l.id = db.rows["company_location"][n].dim_id
                   /\ ~l.is_hq

\* the statement that adds company_id
AddIdStatement == CHOOSE k \in 1..NQueries : Queries[k] = <<"ADD_ID">>

\* the statement that creates table t
CreateOf(t) == CHOOSE k \in 1..NQueries : Queries[k] = Create(t)

\* the tables with FOREIGN KEY (company_id) REFERENCES company_raw(company_id)
ReferencingTables == JunctionTables \cup ChildTables

\* C16: a statement is executed only when every statement before it in the
\* list has been executed and committed in this run; so company_id is added
\* and committed before a table that references it is created, a table is
\* created and committed before the INSERT into it is executed, and the
\* dimension INSERT of a category is executed and committed before its
\* junction INSERT is executed.
C16_StatementOrder ==
  /\ done \subseteq executed
  /\ \A k \in executed : 1..(k - 1) \subseteq done
  /\ \A t \in ReferencingTables :
       CreateOf(t) \in executed => AddIdStatement \in done
  /\ \A t \in DestTables : InsertOf(t) \in executed => CreateOf(t) \in done
  /\ \A j \in JunctionTables :
       InsertOf(j) \in executed =>
         /\ InsertOf(DimensionOf(j)) \in done
         /\ db.rows[DimensionOf(j)] = session.rows[DimensionOf(j)]

\* the junction INSERT of the specialties has been executed and has found the
\* committed dimension rows to link to
C16_Witness ==
  /\ run = 1
  /\ InsertOf("company_specialty") \in executed
  /\ InsertOf("company_specialty") \notin done
  /\ db.rows["specialty"] # <<>>
  /\ session.rows["company_specialty"] # <<>>
  /\ db.rows["company_specialty"] = <<>>

\* the columns INSERT INTO affiliated_companies fills from a payload entry
AffiliatedFields == {"name", "linkedin_url", "industry", "location"}

\* C17: when a run is complete, every row of company_raw has one record in
\* affiliated_companies per entry of its payload, in the order of the payload,
\* and the record holds the entry's name, link, industry and location, each
\* with its default when absent.
C17_AffiliatedKeepsAllFields ==
  Complete =>
    \A i \in DOMAIN raw0 :
      LET items == raw0[i].affiliated_companies.items
          recs == RecordsOf("affiliated_companies", i)
      IN  /\ Len(recs) = Len(items)
          /\ \A n \in DOMAIN items :
               /\ AffiliatedFields \subseteq DOMAIN recs[n]
               /\ recs[n].name = COALESCE(items[n].name, NoNameProvided)
               /\ recs[n].linkedin_url = COALESCE(items[n].link, NoLinkProvided)
               /\ recs[n].industry
                    = COALESCE(items[n].industry, NoIndustryProvided)
               /\ recs[n].location
                    = COALESCE(items[n].location, NoLocationProvided)

\* C18: when a run is complete, no column that an INSERT reads is left in
\* company_raw.
C18_MigratedColumnsRemoved == Complete => MigratedColumns \cap db.cols = {}

\* the entries of the updates payload of r whose year, month and day, with
\* the defaults, form a date
DatedUpdates(r) ==
  {n \in DOMAIN r.updates.items : ValidDate(Defaulted(r.updates.items[n]))}

\* C19: in a first run without store errors, the INSERT into company_updates
\* is not rejected, and once it is through every row of company_raw has as
\* many records as its payload has entries that form a date.
C19_InvalidEntrySkipped ==
  (run = 1 /\ errors = 0) =>
    /\ failed.stmt # InsertOf("company_updates")
    /\ InsertOf("company_updates") \in done =>
         \A i \in DOMAIN raw0 :
           Len(RecordsOf("company_updates", i))
             = Cardinality(DatedUpdates(raw0[i]))

\* C20: once run_migration has returned or an exception has left it, the
\* cursor and the connection it acquired are closed.
C20_ClosedOnEveryExit == (Complete \/ Failed) => open = {}

\* the locations rows that a company_location link of company i leads to
LinkedLocations(i) ==
  {l \in Range(db.rows["locations"]) :
     \E n \in LinksOf("company_location", i) :
       db.rows["company_location"][n].dim_id = l.id}

\* C21: once the INSERT into company_location is through, every entry of a
\* row's locations payload that has a country is linked, from that row, to
\* the locations row built from it, whether or not its city, postal_code,
\* line_1 or state is absent, and every locations row is referenced by a
\* link.
C21_EveryLocationLinked ==
  InsertOf("company_location") \in done =>
    /\ \A i \in DOMAIN raw0 : \A e \in Located(raw0[i]) :
         \E l \in LinkedLocations(i) : BuiltFrom(l, e)
    /\ \A l \in Range(db.rows["locations"]) :
         \E i \in DOMAIN raw0 : l \in LinkedLocations(i)

\* whether the join of junction j can match extracted entry k: = on a NULL
\* column of company_location matches nothing
Comparable(j, k) ==
  j = "company_location" =>
    NULL \notin {k.city, k.postal_code, k.address_line1, k.state}

\* the links of company i in junction j that lead to a dimension row matching
\* extracted entry k
LinksFor(j, i, k) ==
  {n \in LinksOf(j, i) :
     \E d \in Range(db.rows[DimensionOf(j)]) :
       d.id = db.rows[j][n].dim_id /\ On(j, d, k)}

\* the entries of s that occur in it more than once
Repeated(s) ==
  {s[a] : a \in {x \in DOMAIN s : \E y \in DOMAIN s : y # x /\ s[y] = s[x]}}

====
